---- MODULE Spec2Model ----
(***************************************************************************)
(* Model of the 7M.24 register decoders (src/src/modbus_datatypes.rs) and  *)
(* of the poll cycle that fetches and decodes the registers of the meter   *)
(* and inserts one row (src/src/main.rs).                                  *)
(*                                                                         *)
(* Integers wider than 31 bits are kept as a pair of 16-bit halves         *)
(* [hi, lo] so that every width is the width the Rust code computes in.    *)
(* f32 values that the code obtains from an integer are the exactly        *)
(* rounded value sig * 2^e2; products, quotients and powers of f32 values  *)
(* are kept as terms naming the operation the code applies.                *)
(***************************************************************************)
EXTENDS Integers, Sequences, FiniteSets, TLC

(* ------------------------------------------------------------------ *)
(* Bounds of the model                                                 *)
(* ------------------------------------------------------------------ *)

\* longest register block handed to a decoder
MaxLen == 2

\* number of device register images the poll cycle is run against
NumImages == 6

(* ------------------------------------------------------------------ *)
(* Fixed-width integer arithmetic of the Rust code                     *)
(* ------------------------------------------------------------------ *)

RECURSIVE Pow2(_)
Pow2(n) == IF n = 0 THEN 1 ELSE 2 * Pow2(n - 1)

\* bitwise or of two naturals
RECURSIVE BitOr(_, _)
BitOr(a, b) ==
    IF a = 0 THEN b
    ELSE IF b = 0 THEN a
    ELSE (IF a % 2 = 1 \/ b % 2 = 1 THEN 1 ELSE 0) + 2 * BitOr(a \div 2, b \div 2)

\* u16 << n : bits shifted past bit 15 are dropped
Shl16(w, n) == (w % Pow2(16 - n)) * Pow2(n)

\* u16 >> n
Shr16(w, n) == w \div Pow2(n)

\* x as u8 : truncation to the low 8 bits
AsU8(x) == x % 256

\* x as i8 : the low 8 bits read as two's complement
AsI8(x) == IF x % 256 >= 128 THEN (x % 256) - 256 ELSE x % 256

\* x as i16 : the low 16 bits read as two's complement
AsI16(x) == IF x % 65536 >= 32768 THEN (x % 65536) - 65536 ELSE x % 65536

\* a 32-bit pattern, as two 16-bit halves
Bits32(h, l) == [hi |-> h, lo |-> l]

\* (w: u16) as u32 : zero extension
U32FromU16(w) == Bits32(0, w)

\* the 32-bit two's-complement pattern of a signed value (sign extension)
BitsOfI32(x) == Bits32((x \div 65536) % 65536, x % 65536)

\* (p: u32) as i32 : reinterpretation of the pattern as two's complement
AsI32(p) == (IF p.hi >= 32768 THEN p.hi - 65536 ELSE p.hi) * 65536 + p.lo

\* 32-bit << n for 0 <= n <= 16 : bits shifted past bit 31 are dropped
Shl32(p, n) ==
    Bits32(((p.hi % Pow2(16 - n)) * Pow2(n)) + (p.lo \div Pow2(16 - n)),
           (p.lo % Pow2(16 - n)) * Pow2(n))

\* 32-bit |
Or32(p, q) == Bits32(BitOr(p.hi, q.hi), BitOr(p.lo, q.lo))

\* ux::u24 keeps a u32 and masks it to its low 24 bits
MaskU24(p) == Bits32(p.hi % 256, p.lo)

\* ux::i24 keeps an i32 and masks it by sign extension from bit 23
MaskI24(p) == Bits32(IF p.hi % 256 >= 128 THEN BitOr(p.hi % 256, 65280) ELSE p.hi % 256, p.lo)

(* ------------------------------------------------------------------ *)
(* f32 values                                                          *)
(* ------------------------------------------------------------------ *)

\* number of significant bits of a natural
RECURSIVE BitLen(_)
BitLen(n) == IF n = 0 THEN 0 ELSE 1 + BitLen(n \div 2)

\* round-to-nearest-even of q + r / 2^s to an integer
RoundEven(q, r, s) ==
    IF r > Pow2(s - 1) \/ (r = Pow2(s - 1) /\ q % 2 = 1) THEN q + 1 ELSE q

\* the f32 sig * 2^e2 nearest to sgn * (q + r / 2^s) * 2^s, q below 2^24
F32Rounded(sgn, q, r, s) ==
    IF RoundEven(q, r, s) = 16777216
    THEN [sig |-> sgn * 8388608, e2 |-> s + 1]
    ELSE [sig |-> sgn * RoundEven(q, r, s), e2 |-> s]

\* (x: i32 / i16 / u16) as f32 : exact below 2^24, else rounded to 24 bits
F32FromInt(x) ==
    IF x = -2147483647 - 1 THEN [sig |-> -8388608, e2 |-> 8]
    ELSE LET a == IF x < 0 THEN -x ELSE x
             s == BitLen(a) - 24
         IN  IF s <= 0 THEN [sig |-> x, e2 |-> 0]
             ELSE F32Rounded(IF x < 0 THEN -1 ELSE 1, a \div Pow2(s), a % Pow2(s), s)

\* (p: u32) as f32
F32FromU32(p) ==
    IF p.hi < 32768 THEN F32FromInt(p.hi * 65536 + p.lo)
    ELSE F32Rounded(1, p.hi * 256 + (p.lo \div 256), p.lo % 256, 8)

\* a * b in f32
F32Mul(a, b) == [op |-> "mul", lhs |-> a, rhs |-> b]

\* a / b in f32
F32Div(a, b) == [op |-> "div", lhs |-> a, rhs |-> b]

\* f32::powi : integer power
Powi(b, n) == [op |-> "powi", base |-> b, exp |-> n]

\* f32::powf : floating-point power
Powf(b, y) == [op |-> "powf", base |-> b, exp |-> y]

\* ieee754 recompose_raw : sign, 8 exponent bits, 23 significand bits
recompose_raw(sign_bit, exponent, significand) ==
    [op |-> "from_bits",
     bits |-> Bits32((IF sign_bit THEN 32768 ELSE 0) + (exponent % 256) * 128
                        + ((significand.hi % 128)),
                     significand.lo)]

(* ------------------------------------------------------------------ *)
(* The decoders: impl ModbusConversions for Vec<u16>                   *)
(* A result is the value returned and the word indexes read, or the    *)
(* failure of the length assertion.                                    *)
(* ------------------------------------------------------------------ *)

NoValue == [ty |-> "none"]

\* the value a decoder returns
Returned(t, v, rd) == [ok |-> TRUE, err |-> "none", ty |-> t, val |-> v, reads |-> rd]

\* assert_eq!(self.len(), n) fails: the decoder panics, nothing is returned
InvalidInputLength == [ok |-> FALSE, err |-> "InvalidInputLength", ty |-> "none",
                       val |-> NoValue, reads |-> {}]

\* get_t1 without its length assertion: indexing alone guards the read
get_t1_unasserted(self) ==
    IF Len(self) = 0
    THEN [ok |-> FALSE, err |-> "IndexOutOfBounds", ty |-> "none", val |-> NoValue, reads |-> {0}]
    ELSE Returned("u16", self[1], {0})

get_t1(self) ==
    IF Len(self) # 1 THEN InvalidInputLength
    ELSE Returned("u16", self[1], {0})

get_t2(self) ==
    IF Len(self) # 1 THEN InvalidInputLength
    ELSE Returned("i16", AsI16(self[1]), {0})

\* get_t3 with the words taken low word first
get_t3_swapped(self) ==
    IF Len(self) # 2 THEN InvalidInputLength
    ELSE Returned("i32",
                  AsI32(Or32(Shl32(U32FromU16(self[2]), 16), U32FromU16(self[1]))),
                  {0, 1})

get_t3(self) ==
    IF Len(self) # 2 THEN InvalidInputLength
    ELSE Returned("i32",
                  AsI32(Or32(Shl32(U32FromU16(self[1]), 16), U32FromU16(self[2]))),
                  {0, 1})

\* the 24-bit value of get_t5 built through the signed types of get_t6
t5_val_signed(self) ==
    MaskI24(Or32(Shl32(MaskI24(BitsOfI32(AsI8(self[1]))), 16),
                 MaskI24(BitsOfI32(AsI16(self[2])))))

\* the exponent and the 24-bit value of get_t5
t5_exp(self) == AsI8(Shr16(self[1], 8))
t5_val(self) ==
    MaskU24(Or32(Shl32(MaskU24(U32FromU16(AsU8(self[1]))), 16),
                 MaskU24(U32FromU16(self[2]))))

get_t5(self) ==
    IF Len(self) # 2 THEN InvalidInputLength
    ELSE Returned("f32",
                  F32Mul(F32FromU32(t5_val(self)), Powi(F32FromInt(10), t5_exp(self))),
                  {0, 1})

\* the exponent and the 24-bit value of get_t6
t6_exp(self) == AsI8(Shr16(self[1], 8))
t6_val(self) ==
    MaskI24(Or32(Shl32(MaskI24(BitsOfI32(AsI8(self[1]))), 16),
                 MaskI24(BitsOfI32(AsI16(self[2])))))

get_t6(self) ==
    IF Len(self) # 2 THEN InvalidInputLength
    ELSE Returned("f32",
                  F32Mul(F32FromInt(AsI32(t6_val(self))), Powi(F32FromInt(10), t6_exp(self))),
                  {0, 1})

\* the sign of get_t7 with the capacitive flag applied as well
t7_sign_dir_both(self) ==
    (IF Shr16(self[1], 8) = 255 THEN -1 ELSE 1) * (IF AsU8(self[1]) = 255 THEN -1 ELSE 1)

t7_sign_dir(self) == IF Shr16(self[1], 8) = 255 THEN -1 ELSE 1

get_t7(self) ==
    IF Len(self) # 2 THEN InvalidInputLength
    ELSE Returned("i32", t7_sign_dir(self) * self[2], {0, 1})

get_t16(self) ==
    IF Len(self) # 1 THEN InvalidInputLength
    ELSE Returned("f32", F32Div(F32FromInt(self[1]), F32FromInt(100)), {0})

\* get_t17 without the cast to i16
get_t17_unsigned(self) ==
    IF Len(self) # 1 THEN InvalidInputLength
    ELSE Returned("f32", F32Div(F32FromInt(self[1]), F32FromInt(100)), {0})

get_t17(self) ==
    IF Len(self) # 1 THEN InvalidInputLength
    ELSE Returned("f32", F32Div(F32FromInt(AsI16(self[1])), F32FromInt(100)), {0})

\* the three fields get_float hands to recompose_raw
float_sign_bit(self) == Shr16(self[1], 15) = 1
\* the exponent of get_float without the shift that drops the sign bit
float_exponent_unshifted(self) == AsU8(Shr16(self[1], 8))

float_exponent(self) == AsU8(Shr16(Shl16(self[1], 1), 8))
float_significand(self) ==
    Or32(Shl32(U32FromU16(Shl16(self[1], 9)), 7), U32FromU16(self[2]))

get_float(self) ==
    IF Len(self) # 2 THEN InvalidInputLength
    ELSE Returned("f32",
                  recompose_raw(float_sign_bit(self), float_exponent(self),
                                float_significand(self)),
                  {0, 1})

\* the method a call site names
Decoders == {"get_t1", "get_t2", "get_t3", "get_t5", "get_t6", "get_t7",
             "get_t16", "get_t17", "get_float"}

Decode(func, self) ==
    CASE func = "get_t1" -> get_t1(self)
      [] func = "get_t2" -> get_t2(self)
      [] func = "get_t3" -> get_t3(self)
      [] func = "get_t5" -> get_t5(self)
      [] func = "get_t6" -> get_t6(self)
      [] func = "get_t7" -> get_t7(self)
      [] func = "get_t16" -> get_t16(self)
      [] func = "get_t17" -> get_t17(self)
      [] func = "get_float" -> get_float(self)

(* ------------------------------------------------------------------ *)
(* State                                                               *)
(* ------------------------------------------------------------------ *)

VARIABLES
    block,        \* the Vec<u16> a decoder is called on
    func,         \* the decoder last called on block, "none" before any call
    result,       \* what that call returned
    pc,           \* where main is
    image,        \* the register image the device holds during this run
    device_id,    \* modbus_device_id of the settings
    log,          \* the register reads, decodes and inserts done so far, in order
    raw,          \* raw_* : the blocks fetched so far
    vals,         \* m_* : what the decoders returned for them
    measurement,  \* the Measurement get_measurements returned
    error         \* why main panicked

decvars == <<block, func, result>>
pollvars == <<pc, image, device_id, log, raw, vals, measurement, error>>
vars == <<block, func, result, pc, image, device_id, log, raw, vals, measurement, error>>

(* ------------------------------------------------------------------ *)
(* Inputs                                                              *)
(* ------------------------------------------------------------------ *)

\* register words the decoders are called on: the edges of every field
\* (0x0000 0x0001 0x007F 0x0080 0x00FF 0x0100 0x7FFF 0x8000 0x80FF 0xFF00
\* 0xFFFD 0xFFFF) and the words of the documented examples (0x3039 0xCFC7
\* 0x075B 0xCD15 0xFD01 0xE240 0xFDFE 0x1DC0 0x42F6 0xE666)
Words == {0, 1, 127, 128, 255, 256, 32767, 32768, 33023, 65280, 65533, 65535,
          12345, 53191, 1883, 52501, 64769, 57920, 65022, 7616, 17142, 58982}

RECURSIVE SeqsOf(_, _)
SeqsOf(S, n) ==
    IF n = 0 THEN {<<>>}
    ELSE {Append(q, w) : q \in SeqsOf(S, n - 1), w \in S}

Blocks == UNION {SeqsOf(Words, n) : n \in 0..MaxLen}

\* words a device register may hold in a poll
RegWords == <<0, 3, 65533, 1, 65535, 32768, 32767, 1883, 52501, 17142, 58982,
              64769, 57920, 65022, 7616, 65280, 255>>

\* the word input register a holds in register image i
InputRegister(i, a) == RegWords[((i * (a + 1) + i * i) % Len(RegWords)) + 1]

DeviceIds == {1, 33}

\* the decoder harness at rest, the poll cycle at rest
NoResult == [ok |-> FALSE, err |-> "none", ty |-> "none", val |-> NoValue, reads |-> {}]
NoMeasurement == [built |-> FALSE]

DecIdle == block = <<>> /\ func = "none" /\ result = NoResult
PollIdle ==
    /\ pc = "idle" /\ image = 0 /\ device_id = 0 /\ log = <<>> /\ raw = <<>>
    /\ vals = <<>> /\ measurement = NoMeasurement /\ error = "none"

(* ------------------------------------------------------------------ *)
(* The decoders called on arbitrary blocks                             *)
(* ------------------------------------------------------------------ *)

DecInit == block \in Blocks /\ func = "none" /\ result = NoResult /\ PollIdle

\* what every call of a decoder leaves alone
CallFrame == UNCHANGED <<block, pc, image, device_id, log, raw, vals, measurement, error>>

Call_get_t1 ==
    /\ func' = "get_t1"
    /\ result' = get_t1(block)
    /\ CallFrame

Call_get_t2 ==
    /\ func' = "get_t2"
    /\ result' = get_t2(block)
    /\ CallFrame

Call_get_t3 ==
    /\ func' = "get_t3"
    /\ result' = get_t3(block)
    /\ CallFrame

Call_get_t5 ==
    /\ func' = "get_t5"
    /\ result' = get_t5(block)
    /\ CallFrame

Call_get_t6 ==
    /\ func' = "get_t6"
    /\ result' = get_t6(block)
    /\ CallFrame

Call_get_t7 ==
    /\ func' = "get_t7"
    /\ result' = get_t7(block)
    /\ CallFrame

Call_get_t16 ==
    /\ func' = "get_t16"
    /\ result' = get_t16(block)
    /\ CallFrame

Call_get_t17 ==
    /\ func' = "get_t17"
    /\ result' = get_t17(block)
    /\ CallFrame

Call_get_float ==
    /\ func' = "get_float"
    /\ result' = get_float(block)
    /\ CallFrame

DecNext ==
    \/ Call_get_t1
    \/ Call_get_t2
    \/ Call_get_t3
    \/ Call_get_t5
    \/ Call_get_t6
    \/ Call_get_t7
    \/ Call_get_t16
    \/ Call_get_t17
    \/ Call_get_float

DecSpec == DecInit /\ [][DecNext]_vars

(* ------------------------------------------------------------------ *)
(* The poll cycle: main, get_measurements, write_to_psql               *)
(* ------------------------------------------------------------------ *)

\* the reads of get_measurements in program order, each with its decoder
FetchTable ==
    << [name |-> "runtime",     addr |-> 103,  cnt |-> 2, func |-> "get_t3"],
       [name |-> "freq",        addr |-> 105,  cnt |-> 2, func |-> "get_t5"],
       [name |-> "u1",          addr |-> 107,  cnt |-> 2, func |-> "get_t5"],
       [name |-> "i1",          addr |-> 126,  cnt |-> 2, func |-> "get_t5"],
       [name |-> "pt",          addr |-> 140,  cnt |-> 2, func |-> "get_t6"],
       [name |-> "qt",          addr |-> 148,  cnt |-> 2, func |-> "get_t6"],
       [name |-> "st",          addr |-> 156,  cnt |-> 2, func |-> "get_t5"],
       [name |-> "pft",         addr |-> 164,  cnt |-> 2, func |-> "get_t7"],
       [name |-> "temp",        addr |-> 181,  cnt |-> 1, func |-> "get_t17"],
       [name |-> "u1_thd",      addr |-> 182,  cnt |-> 1, func |-> "get_t17"],
       [name |-> "i1_thd",      addr |-> 188,  cnt |-> 1, func |-> "get_t17"],
       [name |-> "c1_exp",      addr |-> 401,  cnt |-> 1, func |-> "get_t2"],
       [name |-> "c1_mantissa", addr |-> 406,  cnt |-> 2, func |-> "get_t3"],
       [name |-> "c1_x10",      addr |-> 462,  cnt |-> 2, func |-> "get_t3"],
       [name |-> "c1_float",    addr |-> 2638, cnt |-> 2, func |-> "get_float"],
       [name |-> "c4_exp",      addr |-> 404,  cnt |-> 1, func |-> "get_t2"],
       [name |-> "c4_mantissa", addr |-> 412,  cnt |-> 2, func |-> "get_t3"],
       [name |-> "c4_x10",      addr |-> 468,  cnt |-> 2, func |-> "get_t3"],
       [name |-> "c4_float",    addr |-> 2644, cnt |-> 2, func |-> "get_float"],
       [name |-> "x3_exp",      addr |-> 448,  cnt |-> 1, func |-> "get_t2"],
       [name |-> "x3_mantissa", addr |-> 418,  cnt |-> 2, func |-> "get_t3"],
       [name |-> "x3_x10",      addr |-> 474,  cnt |-> 2, func |-> "get_t3"],
       [name |-> "x3_float",    addr |-> 2764, cnt |-> 2, func |-> "get_float"] >>

\* the table with one word requested for the C1 mantissa
Fetches_short_mantissa == [FetchTable EXCEPT ![13].cnt = 1]

Fetches == FetchTable

\* position of the read called n
FetchIndex(n) == CHOOSE i \in 1..Len(Fetches) : Fetches[i].name = n

\* ctx.read_input_registers(addr, cnt) answered: cnt words starting at addr
read_input_registers(i, addr, cnt) == [k \in 1..cnt |-> InputRegister(i, addr + k - 1)]

\* the coarse value with the integer power that get_t5 and get_t6 use
counter_val_powi(mantissa, exp) ==
    F32Mul(F32FromInt(mantissa), Powi(F32FromInt(10), exp))

\* m_c_val = (mantissa as f32) * (10.0_f32).powf(exp as f32)
counter_val(mantissa, exp) ==
    F32Mul(F32FromInt(mantissa), Powf(F32FromInt(10), F32FromInt(exp)))

\* Counter { exp, mantissa, val, x10, float } of the four decoded reads
Counter(m_exp, m_mantissa, m_x10, m_float) ==
    [exp |-> m_exp,
     mantissa |-> m_mantissa,
     val |-> counter_val(m_mantissa, m_exp),
     x10 |-> F32Div(F32FromInt(m_x10), F32FromInt(10)),
     float |-> m_float]

\* the counter whose reads are called c_exp, c_mantissa, c_x10, c_float
CounterOf(vs, c) ==
    Counter(vs[FetchIndex(c \o "_exp")].val, vs[FetchIndex(c \o "_mantissa")].val,
            vs[FetchIndex(c \o "_x10")].val, vs[FetchIndex(c \o "_float")].val)

\* Measurement { ... } of all decoded reads
Measurement(id, vs) ==
    [built |-> TRUE,
     device_id |-> id,
     device_timestamp |-> vs[FetchIndex("runtime")].val,
     frequency |-> vs[FetchIndex("freq")].val,
     u1 |-> vs[FetchIndex("u1")].val,
     i1 |-> vs[FetchIndex("i1")].val,
     u1_thd |-> vs[FetchIndex("u1_thd")].val,
     i1_thd |-> vs[FetchIndex("i1_thd")].val,
     pt |-> vs[FetchIndex("pt")].val,
     qt |-> vs[FetchIndex("qt")].val,
     st |-> vs[FetchIndex("st")].val,
     pft |-> vs[FetchIndex("pft")].val,
     temp |-> vs[FetchIndex("temp")].val,
     c1 |-> CounterOf(vs, "c1"),
     c4 |-> CounterOf(vs, "c4"),
     x3 |-> CounterOf(vs, "x3")]

ReadEvent(f, ws, good) == [ev |-> "read", addr |-> f.addr, cnt |-> f.cnt, words |-> ws, ok |-> good]
DecodeEvent(f, ws) == [ev |-> "decode", func |-> f.func, words |-> ws]
InsertEvent(m) == [ev |-> "insert", row |-> m]

Init ==
    /\ DecIdle
    /\ pc = "connect"
    /\ image \in 1..NumImages
    /\ device_id \in DeviceIds
    /\ log = <<>>
    /\ raw = <<>>
    /\ vals = <<>>
    /\ measurement = NoMeasurement
    /\ error = "none"

\* tcp::connect(socket_addr).await succeeds
ConnectOk ==
    /\ pc = "connect"
    /\ pc' = "fetch"
    /\ UNCHANGED <<decvars, image, device_id, log, raw, vals, measurement, error>>

\* tcp::connect fails: get_measurements returns the error and main's unwrap panics
ConnectErr ==
    /\ pc = "connect"
    /\ pc' = "panicked"
    /\ error' = "connect"
    /\ UNCHANGED <<decvars, image, device_id, log, raw, vals, measurement>>

\* a failed read whose error is dropped and the cycle carried on
FetchErr_ignored ==
    /\ pc = "fetch"
    /\ Len(raw) + 1 < Len(Fetches)
    /\ log' = Append(log, ReadEvent(Fetches[Len(raw) + 1], <<>>, FALSE))
    /\ raw' = Append(raw, <<>>)
    /\ vals' = Append(vals, NoResult)
    /\ UNCHANGED <<decvars, pc, image, device_id, measurement, error>>

\* the next read fails: `?` returns the error and main's unwrap panics
FetchErr ==
    /\ pc = "fetch"
    /\ log' = Append(log, ReadEvent(Fetches[Len(raw) + 1], <<>>, FALSE))
    /\ pc' = "panicked"
    /\ error' = "modbus"
    /\ UNCHANGED <<decvars, image, device_id, raw, vals, measurement>>

\* the next read is answered and its decoder applied to a clone of the block;
\* after the last one the Measurement is built and returned
FetchOk ==
    /\ pc = "fetch"
    /\ LET f == Fetches[Len(raw) + 1]
           ws == read_input_registers(image, f.addr, f.cnt)
           res == Decode(f.func, ws)
       IN  /\ log' = log \o <<ReadEvent(f, ws, TRUE), DecodeEvent(f, ws)>>
           /\ raw' = Append(raw, ws)
           /\ IF ~res.ok
              THEN /\ pc' = "panicked"
                   /\ error' = res.err
                   /\ UNCHANGED <<vals, measurement>>
              ELSE /\ vals' = Append(vals, res)
                   /\ error' = error
                   /\ IF Len(raw) + 1 = Len(Fetches)
                      THEN /\ measurement' = Measurement(device_id, vals')
                           /\ pc' = "psql_connect"
                      ELSE /\ measurement' = measurement
                           /\ pc' = "fetch"
    /\ UNCHANGED <<decvars, image, device_id>>

\* tokio_postgres::connect succeeds
PsqlConnectOk ==
    /\ pc = "psql_connect"
    /\ pc' = "execute"
    /\ UNCHANGED <<decvars, image, device_id, log, raw, vals, measurement, error>>

\* tokio_postgres::connect fails: write_to_psql returns the error, main's unwrap panics
PsqlConnectErr ==
    /\ pc = "psql_connect"
    /\ pc' = "panicked"
    /\ error' = "psql_connect"
    /\ UNCHANGED <<decvars, image, device_id, log, raw, vals, measurement>>

\* client.execute("INSERT INTO energy ...") succeeds, main returns Ok(())
ExecuteOk ==
    /\ pc = "execute"
    /\ log' = Append(log, InsertEvent(measurement))
    /\ pc' = "done"
    /\ UNCHANGED <<decvars, image, device_id, raw, vals, measurement, error>>

\* client.execute fails: expect("Cannot write into database") panics
ExecuteErr ==
    /\ pc = "execute"
    /\ log' = Append(log, InsertEvent(measurement))
    /\ pc' = "panicked"
    /\ error' = "Cannot write into database"
    /\ UNCHANGED <<decvars, image, device_id, raw, vals, measurement>>

Next ==
    \/ ConnectOk
    \/ ConnectErr
    \/ FetchOk
    \/ FetchErr
    \/ PsqlConnectOk
    \/ PsqlConnectErr
    \/ ExecuteOk
    \/ ExecuteErr

Spec == Init /\ [][Next]_vars

(* ------------------------------------------------------------------ *)
(* Properties of the decoders (checked under DecSpec)                  *)
(* ------------------------------------------------------------------ *)

Called(f, n) == func = f /\ Len(block) = n

\* the high byte of a word read as a signed 8-bit value
SignedHighByte(w) == IF w \div 256 >= 128 THEN (w \div 256) - 256 ELSE w \div 256

\* the low byte of w0 and all of w1 as an unsigned 24-bit value
Unsigned24(w0, w1) == (w0 % 256) * 65536 + w1

\* the same 24 bits sign-extended from bit 23
Signed24(w0, w1) ==
    IF Unsigned24(w0, w1) >= 8388608 THEN Unsigned24(w0, w1) - 16777216
    ELSE Unsigned24(w0, w1)

\* C1: for every 2-word block the magnitude get_t6 multiplies by the power of
\* ten is the 24 bits (low byte of w0, all of w1) sign-extended from bit 23,
\* and the exponent is the high byte of w0 read as a signed 8-bit value.
C1_T6Magnitude ==
    Called("get_t6", 2) =>
        /\ result.ok
        /\ result.val.lhs = [sig |-> Signed24(block[1], block[2]), e2 |-> 0]
        /\ result.val.rhs.exp = SignedHighByte(block[1])

\* the number of words each decoder requires
Required(f) == IF f \in {"get_t1", "get_t2", "get_t16", "get_t17"} THEN 1 ELSE 2

\* C2: a decoder called on a block whose length differs from its requirement
\* fails with InvalidInputLength, having read no word and returning no value;
\* called on a block of the required length it does not fail.
C2_LengthChecked ==
    func # "none" =>
        /\ Len(block) # Required(func) =>
              /\ ~result.ok
              /\ result.err = "InvalidInputLength"
              /\ result.reads = {}
              /\ result.val = NoValue
        /\ Len(block) = Required(func) =>
              /\ result.ok
              /\ result.err # "InvalidInputLength"

C2_Witness ==
    \/ Called("get_t3", 1) /\ result.err = "InvalidInputLength"
    \/ Called("get_t1", 2) /\ result.err = "InvalidInputLength"

\* C3: for every 2-word block get_t5 multiplies the unsigned 24-bit value
\* (w0 mod 256) * 65536 + w1, which is never negative, by ten to the high
\* byte of w0 read as a signed 8-bit value.
C3_T5Magnitude ==
    Called("get_t5", 2) =>
        /\ result.ok
        /\ result.val.op = "mul"
        /\ result.val.lhs = [sig |-> Unsigned24(block[1], block[2]), e2 |-> 0]
        /\ result.val.lhs.sig \in 0..16777215
        /\ result.val.rhs = Powi([sig |-> 10, e2 |-> 0], SignedHighByte(block[1]))

C3_Witness ==
    /\ Called("get_t5", 2)
    /\ block = <<64769, 57920>>
    /\ result.val.lhs.sig = 123456
    /\ result.val.rhs.exp = -3

\* C4: get_float hands bit 15 of w0 as the sign, bits 14..7 of w0 as the
\* exponent and (low 7 bits of w0) * 65536 + w1 as the significand, and the
\* pattern assembled from them is the pattern whose halves are w0 and w1.
C4_FloatLayout ==
    Called("get_float", 2) =>
        /\ result.ok
        /\ float_sign_bit(block) = (block[1] \div 32768 = 1)
        /\ float_exponent(block) = (block[1] \div 128) % 256
        /\ float_significand(block) = Bits32(block[1] % 128, block[2])
        /\ result.val.bits = Bits32(block[1], block[2])

C4_Witness ==
    /\ Called("get_float", 2)
    /\ block = <<17142, 58982>>
    /\ result.val.bits = Bits32(17142, 58982)
    /\ float_exponent(block) = 133

\* C5: get_t7 returns -w1 when the high byte of w0 is 0xFF and w1 otherwise,
\* and blocks that differ only in the low byte of w0 decode alike.
C5_T7Sign ==
    Called("get_t7", 2) =>
        /\ result.ok
        /\ result.val = (IF block[1] \div 256 = 255 THEN -block[2] ELSE block[2])
        /\ result.val \in -65535..65535
        /\ \A l \in 0..255 :
              get_t7(<<(block[1] \div 256) * 256 + l, block[2]>>).val = result.val

C5_Witness ==
    /\ Called("get_t7", 2)
    /\ block = <<65535, 65535>>
    /\ result.val = -65535

\* C6: get_t3 returns w0 * 65536 + w1 read as signed 32-bit two's complement.
C6_T3Signed32 ==
    Called("get_t3", 2) =>
        /\ result.ok
        /\ result.val = (IF block[1] < 32768 THEN block[1] * 65536 + block[2]
                         ELSE (block[1] - 65536) * 65536 + block[2])

C6_Witness ==
    /\ Called("get_t3", 2)
    /\ block = <<1883, 52501>>
    /\ result.val = 123456789

\* C7: on one word w, get_t1 returns w, get_t2 returns w read as signed 16-bit,
\* get_t16 divides the unsigned w by 100 and get_t17 divides by 100 the value
\* get_t2 returns.
C7_OneWord ==
    /\ Called("get_t1", 1) => result.val = block[1] /\ result.val \in 0..65535
    /\ Called("get_t2", 1) =>
          result.val = (IF block[1] < 32768 THEN block[1] ELSE block[1] - 65536)
    /\ Called("get_t16", 1) =>
          result.val = F32Div([sig |-> block[1], e2 |-> 0], [sig |-> 100, e2 |-> 0])
    /\ Called("get_t17", 1) =>
          result.val = F32Div([sig |-> get_t2(block).val, e2 |-> 0], [sig |-> 100, e2 |-> 0])

C7_Witness ==
    /\ Called("get_t17", 1)
    /\ block = <<53191>>
    /\ result.val.lhs.sig = -12345

(* ------------------------------------------------------------------ *)
(* Properties of the poll cycle (checked under Spec)                   *)
(* ------------------------------------------------------------------ *)

Events(kind) == {k \in 1..Len(log) : log[k].ev = kind}
GoodReads == {k \in Events("read") : log[k].ok}
FailedReads == {k \in Events("read") : ~log[k].ok}

\* the words the device answered for the read at address a
WordsRead(a) == log[CHOOSE k \in GoodReads : log[k].addr = a].words

\* exponent and mantissa register of each counter
CounterRegisters ==
    { [name |-> "c1", exp |-> 401, mantissa |-> 406],
      [name |-> "c4", exp |-> 404, mantissa |-> 412],
      [name |-> "x3", exp |-> 448, mantissa |-> 418] }

\* C8: val of each counter is (mantissa as f32) * 10^(exponent as f32) with the
\* floating-point power, mantissa the T3 decode of the counter's mantissa
\* register and exponent the T2 decode of its exponent register; whatever the
\* x10 and float reads return, val is the same.
C8_CounterVal ==
    measurement.built =>
        \A c \in CounterRegisters :
            LET e == get_t2(WordsRead(c.exp)).val
                m == get_t3(WordsRead(c.mantissa)).val
            IN  /\ measurement[c.name].exp = e
                /\ measurement[c.name].mantissa = m
                /\ measurement[c.name].val =
                      [op |-> "mul",
                       lhs |-> F32FromInt(m),
                       rhs |-> [op |-> "powf", base |-> [sig |-> 10, e2 |-> 0],
                                exp |-> [sig |-> e, e2 |-> 0]]]
                /\ \A b \in SeqsOf({0, 1, 32768, 65535}, 2) :
                      Counter(e, m, get_t3(b).val, get_float(b).val).val
                          = measurement[c.name].val

C8_Witness ==
    /\ measurement.built
    /\ measurement.c1.exp < 0
    /\ measurement.c1.mantissa # 0
    /\ measurement.c1.val.rhs.op = "powf"
    /\ measurement.c4.exp >= 0

\* the register map: address, words, decoder
RegisterMap ==
    { <<103, 2, "get_t3">>, <<105, 2, "get_t5">>, <<107, 2, "get_t5">>,
      <<126, 2, "get_t5">>, <<140, 2, "get_t6">>, <<148, 2, "get_t6">>,
      <<156, 2, "get_t5">>, <<164, 2, "get_t7">>, <<181, 1, "get_t17">>,
      <<182, 1, "get_t17">>, <<188, 1, "get_t17">>,
      <<401, 1, "get_t2">>, <<406, 2, "get_t3">>, <<462, 2, "get_t3">>, <<2638, 2, "get_float">>,
      <<404, 1, "get_t2">>, <<412, 2, "get_t3">>, <<468, 2, "get_t3">>, <<2644, 2, "get_float">>,
      <<448, 1, "get_t2">>, <<418, 2, "get_t3">>, <<474, 2, "get_t3">>, <<2764, 2, "get_float">> }

\* the (address, words, decoder) of the answered reads done so far
Fetched == {<<log[k].addr, log[k].cnt, log[k + 1].func>> : k \in GoodReads}

\* C9: every decoder invocation of the poll cycle gets a block of the length
\* the decoder requires, so the length failure does not occur, and every read
\* uses an address, word count and decoder of the register map; a completed
\* cycle has used all 23 entries.
C9_RegisterMap ==
    /\ error # "InvalidInputLength"
    /\ \A k \in Events("decode") : Len(log[k].words) = Required(log[k].func)
    /\ \A k \in GoodReads :
          /\ k + 1 \in Events("decode")
          /\ Len(log[k].words) = log[k].cnt
          /\ <<log[k].addr, log[k].cnt, log[k + 1].func>> \in RegisterMap
    /\ \A k \in FailedReads : \E r \in RegisterMap : r[1] = log[k].addr /\ r[2] = log[k].cnt
    /\ measurement.built =>
          /\ Fetched = RegisterMap
          /\ Cardinality(Events("decode")) = 23

C9_Witness ==
    /\ measurement.built
    /\ Cardinality(Events("decode")) = 23
    /\ \A k \in Events("decode") : Len(log[k].words) = Required(log[k].func)

\* the order of the reads
FetchOrder ==
    <<103, 105, 107, 126, 140, 148, 156, 164, 181, 182, 188,
      401, 406, 462, 2638, 404, 412, 468, 2644, 448, 418, 474, 2764>>

\* the addresses read so far, answered or not, in order
RECURSIVE AddrsOf(_)
AddrsOf(l) ==
    IF l = <<>> THEN <<>>
    ELSE IF Head(l).ev = "read" THEN <<Head(l).addr>> \o AddrsOf(Tail(l))
    ELSE AddrsOf(Tail(l))

\* C10: the reads are issued one at a time in the fixed order, a decoder is
\* applied only to the block the read just before it returned, a failed read
\* is the last thing the run does (no Measurement, no insert), and the insert
\* is executed at most once, after all 23 reads were answered and the
\* Measurement was built.
C10_Order ==
    /\ Len(AddrsOf(log)) <= Len(FetchOrder)
    /\ AddrsOf(log) = SubSeq(FetchOrder, 1, Len(AddrsOf(log)))
    /\ \A k \in Events("decode") :
          /\ k - 1 \in GoodReads
          /\ log[k - 1].words = log[k].words
    /\ \A k \in FailedReads :
          /\ k = Len(log)
          /\ pc = "panicked"
          /\ ~measurement.built
          /\ Events("insert") = {}
    /\ Cardinality(Events("insert")) <= 1
    /\ \A k \in Events("insert") :
          /\ k = Len(log)
          /\ Cardinality(GoodReads) = 23
          /\ FailedReads = {}
          /\ measurement.built
          /\ log[k].row = measurement
    /\ measurement.built => Cardinality(GoodReads) = 23

C10_Witness_Failed ==
    /\ pc = "panicked"
    /\ error = "modbus"
    /\ Cardinality(GoodReads) = 12
    /\ FailedReads = {Len(log)}

C10_Witness ==
    /\ pc = "done"
    /\ Cardinality(Events("insert")) = 1
    /\ Cardinality(GoodReads) = 23

====
